---- MODULE Spec2Model ----
(***************************************************************************)
(* Model of Code/main.py: the Elasticsearch document service.              *)
(*                                                                         *)
(* Several service instances (processes running main.py) share one        *)
(* Elasticsearch store.  Each instance connects at import time             *)
(* (connect_elasticsearch), provisions the 'documents' index in its        *)
(* startup hook (initialize_index, one store call per step) and then       *)
(* serves list/create/get/search requests, one store round trip each.      *)
(* Every store call may fail with a transport error.                       *)
(***************************************************************************)
EXTENDS Integers, Sequences, FiniteSets, TLC

\* ---------------------------------------------------------------- bounds
NumInstances == 2
MaxRestarts == 2
MaxCreates == 2

Instances == 1..NumInstances

\* ------------------------------------------------------- program constants
\* connect_elasticsearch: max_retries = 5
max_retries_six == 5 + 1
max_retries == 5

\* datetime.now().isoformat(): the server clock's reading
ServerNow == "now"

\* Absent Optional field of the Document model
None == "None"

VARIABLES
    pc,          \* per instance: where the process is
    attempt,     \* per instance: attempts made by connect_elasticsearch
    ping,        \* per instance: outcome of the last connection attempt
    initResult,  \* per instance: how the startup hook's initialize_index ended
    seeded,      \* per instance: sample documents indexed by the current run
    indexExists, \* store: the 'documents' index exists
    indexCreated, \* store: index creations it has carried out
    docs,        \* store: the documents of the index, by id (1..Len)
    inputs,      \* per stored id: the request body it was created from
    resp,        \* the last HTTP response produced by any instance
    restarts,    \* process restarts so far
    creates,     \* create_document requests served so far
    faulted,     \* a store call of initialize_index has raised a transport error
    okCalls,     \* initialize_index calls that returned without raising
    searched     \* a search response carrying hits has been produced

vars == <<pc, attempt, ping, initResult, seeded, indexExists, indexCreated,
          docs, inputs,
          resp, restarts, creates, faulted, okCalls, searched>>

procVars == <<pc, attempt, ping, initResult, seeded>>
storeVars == <<indexExists, indexCreated, docs, inputs>>
histVars == <<faulted, okCalls>>

\* ------------------------------------------------------------ Document
\* class Document(BaseModel): author, text required; timestamp, views optional
DocInputs ==
    { [author |-> "Alice", text |-> "Elasticsearch is great", views |-> 10],
      [author |-> "Alice", text |-> "Elasticsearch is great",
       timestamp |-> "2024-05-01T10:00:00"],
      [author |-> "", text |-> "", timestamp |-> "", views |-> 0],
      [text |-> "no author"] }

\* pydantic validation of the request body: the required fields are present
Validates(raw) == "author" \in DOMAIN raw /\ "text" \in DOMAIN raw

\* Document(**raw): the defaults of the optional fields
Document(raw) ==
    [author |-> raw.author,
     text |-> raw.text,
     timestamp |-> IF "timestamp" \in DOMAIN raw THEN raw.timestamp ELSE None,
     views |-> IF "views" \in DOMAIN raw THEN raw.views ELSE 0]

\* initialize_index: sample_docs
sample_docs ==
    << [author |-> "John Doe",
        text |-> "Elasticsearch is a powerful search engine based on Lucene.",
        timestamp |-> ServerNow, views |-> 42],
       [author |-> "Jane Smith",
        text |-> "FastAPI makes it easy to build high-performance APIs quickly.",
        timestamp |-> ServerNow, views |-> 17],
       [author |-> "Bob Johnson",
        text |-> "Docker simplifies deployment by containerizing applications.",
        timestamp |-> ServerNow, views |-> 29] >>

SeedAuthors == { sample_docs[k].author : k \in 1..Len(sample_docs) }

\* number of stored documents that are sample documents
SeedCount == Cardinality({ id \in 1..Len(docs) : docs[id].author \in SeedAuthors })

NoResp == [op |-> "none", status |-> 0, results |-> {}, id |-> 0,
           detail |-> "", storeFault |-> FALSE, hadIndex |-> FALSE,
           hadDoc |-> FALSE]

Init ==
    /\ pc = [i \in Instances |-> "connect"]
    /\ attempt = [i \in Instances |-> 0]
    /\ ping = [i \in Instances |-> "none"]
    /\ initResult = [i \in Instances |-> "none"]
    /\ seeded = [i \in Instances |-> 0]
    /\ indexExists = FALSE
    /\ indexCreated = 0
    /\ docs = << >>
    /\ inputs = << >>
    /\ resp = NoResp
    /\ restarts = 0
    /\ creates = 0
    /\ faulted = FALSE
    /\ okCalls = 0
    /\ searched = FALSE

\* ------------------------------------------------ connect_elasticsearch
\* One iteration of `for attempt in range(max_retries)`: es.ping() returns
\* True ("ok"), returns False ("false") or the attempt throws ("exc").
\* A true ping returns the handle; the last failed attempt falls out of the
\* loop and raises ConnectionError, which ends the process at import.
PingOutcomes == {"ok", "false", "exc"}

\* The locals of the call (attempt) are gone once it has returned the handle.
ConnectAttempt(i) ==
    /\ pc[i] = "connect"
    /\ attempt[i] < max_retries
    /\ \E o \in PingOutcomes :
        /\ ping' = [ping EXCEPT ![i] = o]
        /\ IF o = "ok"
           THEN /\ pc' = [pc EXCEPT ![i] = "startup"]
                /\ attempt' = [attempt EXCEPT ![i] = 0]
           ELSE /\ attempt' = [attempt EXCEPT ![i] = @ + 1]
                /\ pc' = [pc EXCEPT ![i] =
                            IF attempt[i] + 1 < max_retries
                            THEN "connect" ELSE "conn_failed"]
    /\ UNCHANGED <<initResult, seeded, storeVars, resp, restarts, creates,
                   histVars, searched>>

\* ------------------------------------------------------ initialize_index
\* `if not es.indices.exists(index="documents")`: the branch taken
AfterExistsSeedAlways(exists) == IF ~exists THEN "create" ELSE "seed"
AfterExists(exists) == IF ~exists THEN "create" ELSE "done"

\* es.indices.create(index="documents", body=mapping): the store refuses an
\* index name that is taken (resource_already_exists_exception), the call
\* raises and control leaves the try block
AfterCreateIgnoreConflict(existsNow) == "seed"
AfterCreate(existsNow) == IF existsNow THEN "raise" ELSE "seed"

\* startup_event: `except Exception` logs and returns, so the application
\* goes on to serve whether initialize_index returned or raised
StartupEnds(i, result) ==
    /\ pc' = [pc EXCEPT ![i] = "serving"]
    /\ initResult' = [initResult EXCEPT ![i] = result]
    /\ okCalls' = IF result = "ok" THEN okCalls + 1 ELSE okCalls
    /\ faulted' = (faulted \/ result = "fault")

ExistsCheck(i) ==
    /\ pc[i] = "startup"
    /\ \/ StartupEnds(i, "fault") /\ UNCHANGED seeded
       \/ /\ AfterExists(indexExists) = "done"
          /\ StartupEnds(i, "ok")
          /\ UNCHANGED seeded
       \/ /\ AfterExists(indexExists) # "done"
          /\ pc' = [pc EXCEPT ![i] = AfterExists(indexExists)]
          /\ seeded' = [seeded EXCEPT ![i] = 0]
          /\ UNCHANGED <<initResult, histVars>>
    /\ UNCHANGED <<attempt, ping, storeVars, resp, restarts, creates, searched>>

CreateIndex(i) ==
    /\ pc[i] = "create"
    /\ \/ StartupEnds(i, "fault") /\ UNCHANGED <<indexExists, indexCreated>>
       \/ /\ AfterCreate(indexExists) = "raise"
          /\ StartupEnds(i, "conflict")
          /\ UNCHANGED <<indexExists, indexCreated>>
       \/ /\ AfterCreate(indexExists) = "seed"
          /\ indexExists' = TRUE
          /\ indexCreated' = indexCreated + 1
          /\ pc' = [pc EXCEPT ![i] = "seed"]
          /\ UNCHANGED <<initResult, histVars>>
    /\ UNCHANGED <<attempt, ping, seeded, docs, inputs, resp, restarts,
                   creates, searched>>

\* One iteration of `for doc in sample_docs: es.index(...)`
SeedInsert(i) ==
    /\ pc[i] = "seed"
    /\ \/ StartupEnds(i, "fault") /\ UNCHANGED <<seeded, docs, inputs>>
       \/ /\ docs' = Append(docs, sample_docs[seeded[i] + 1])
          /\ inputs' = Append(inputs, sample_docs[seeded[i] + 1])
          /\ seeded' = [seeded EXCEPT ![i] = @ + 1]
          /\ IF seeded[i] + 1 = Len(sample_docs)
             THEN StartupEnds(i, "ok")
             ELSE UNCHANGED <<pc, initResult, histVars>>
    /\ UNCHANGED <<attempt, ping, indexExists, indexCreated, resp, restarts,
                   creates, searched>>

\* The process is started again (after a crash at import, or by its operator)
Restart(i) ==
    /\ pc[i] \in {"serving", "conn_failed"}
    /\ restarts < MaxRestarts
    /\ restarts' = restarts + 1
    /\ pc' = [pc EXCEPT ![i] = "connect"]
    /\ attempt' = [attempt EXCEPT ![i] = 0]
    /\ ping' = [ping EXCEPT ![i] = "none"]
    /\ initResult' = [initResult EXCEPT ![i] = "none"]
    /\ seeded' = [seeded EXCEPT ![i] = 0]
    /\ UNCHANGED <<storeVars, resp, creates, histVars, searched>>

\* --------------------------------------------------------------- store
\* The standard analyzer's terms of the texts in use
Tokens(text) ==
    CASE text = "Elasticsearch is great" -> {"elasticsearch", "is", "great"}
      [] text = sample_docs[1].text ->
            {"elasticsearch", "is", "a", "powerful", "search", "engine",
             "based", "on", "lucene"}
      [] text = sample_docs[2].text ->
            {"fastapi", "makes", "it", "easy", "to", "build", "high",
             "performance", "apis", "quickly"}
      [] text = sample_docs[3].text ->
            {"docker", "simplifies", "deployment", "by", "containerizing",
             "applications"}
      [] OTHER -> {}

Queries == {"great", "elasticsearch", ""}

QueryTerms(q) == IF q = "" THEN {} ELSE {q}

\* hits of {"query": {"match_all": {}}} on the refreshed index (the store
\* returns its first 10 hits; the index stays below 10 documents here)
MatchAllHits ==
    { [_id |-> id, _score |-> 1, _source |-> docs[id]] : id \in 1..Len(docs) }

\* hits of {"query": {"match": {"text": q}}, "highlight": {"fields": {"text": {}}}}
MatchHits(q) ==
    { [_id |-> id,
       _score |-> Cardinality(Tokens(docs[id].text) \cap QueryTerms(q)),
       _source |-> docs[id],
       highlight |-> Tokens(docs[id].text) \cap QueryTerms(q)] :
        id \in { k \in 1..Len(docs) :
                    Tokens(docs[k].text) \cap QueryTerms(q) # {} } }

\* ------------------------------------------------------------- gateway
Response(op, status, results, id, detail, fault, hadDoc) ==
    [op |-> op, status |-> status, results |-> results, id |-> id,
     detail |-> detail, storeFault |-> fault, hadIndex |-> indexExists,
     hadDoc |-> hadDoc]

\* list_documents: `hit["_source"] for hit in hits`
ListProjectWithScore(hit) ==
    [author |-> hit._source.author, text |-> hit._source.text,
     timestamp |-> hit._source.timestamp, views |-> hit._source.views,
     score |-> hit._score]
ListProject(hit) == hit._source

\* search_documents: doc = hit["_source"]; doc["highlight"]; doc["score"]
SearchProject(hit) ==
    IF "highlight" \in DOMAIN hit
    THEN [author |-> hit._source.author, text |-> hit._source.text,
          timestamp |-> hit._source.timestamp, views |-> hit._source.views,
          highlight |-> hit.highlight, score |-> hit._score]
    ELSE [author |-> hit._source.author, text |-> hit._source.text,
          timestamp |-> hit._source.timestamp, views |-> hit._source.views,
          score |-> hit._score]

\* create_document: `if not document.timestamp: document.timestamp = now`
FillTimestamp(document) ==
    IF document.timestamp = None \/ document.timestamp = ""
    THEN [document EXCEPT !.timestamp = ServerNow]
    ELSE document

\* get_document / list_documents / search_documents: the except clause taken
\* for the store's exception ("not_found" is exceptions.NotFoundError)
GetStatusAll500(exc) == 500
GetStatus(exc) == IF exc = "not_found" THEN 404 ELSE 500

EmptyOnNotFoundNever(exc) == FALSE
EmptyOnNotFound(exc) == exc = "not_found"

list_documents ==
    /\ \E i \in Instances : pc[i] = "serving"
    /\ \/ resp' = Response("list", 500, {}, 0, "transport error", TRUE, FALSE)
       \/ /\ ~indexExists
          /\ resp' = IF EmptyOnNotFound("not_found")
                     THEN Response("list", 200, {}, 0, "", FALSE, FALSE)
                     ELSE Response("list", 500, {}, 0, "index_not_found_exception",
                                   FALSE, FALSE)
       \/ /\ indexExists
          /\ resp' = Response("list", 200,
                              { ListProject(hit) : hit \in MatchAllHits },
                              0, "", FALSE, FALSE)
    /\ UNCHANGED <<procVars, storeVars, restarts, creates, histVars, searched>>

search_documents ==
    /\ \E i \in Instances : pc[i] = "serving"
    /\ \E q \in Queries :
        \/ /\ resp' = Response("search", 500, {}, 0, "transport error", TRUE, FALSE)
           /\ UNCHANGED searched
        \/ /\ ~indexExists
           /\ resp' = IF EmptyOnNotFound("not_found")
                      THEN Response("search", 200, {}, 0, "", FALSE, FALSE)
                      ELSE Response("search", 500, {}, 0,
                                    "index_not_found_exception", FALSE, FALSE)
           /\ UNCHANGED searched
        \/ /\ indexExists
           /\ resp' = Response("search", 200,
                               { SearchProject(hit) : hit \in MatchHits(q) },
                               0, "", FALSE, FALSE)
           /\ searched' = (searched \/ MatchHits(q) # {})
    /\ UNCHANGED <<procVars, storeVars, restarts, creates, histVars>>

get_document ==
    /\ \E i \in Instances : pc[i] = "serving"
    /\ \E doc_id \in 1..(Len(docs) + 1) :
        LET present == indexExists /\ doc_id \in 1..Len(docs) IN
        \/ resp' = Response("get", GetStatus("transport"), {}, doc_id,
                            "transport error", TRUE, present)
        \/ /\ ~present
           /\ resp' = Response("get", GetStatus("not_found"), {}, doc_id,
                               IF GetStatus("not_found") = 404
                               THEN "Document not found" ELSE "NotFoundError",
                               FALSE, FALSE)
        \/ /\ present
           /\ resp' = Response("get", 200, {docs[doc_id]}, doc_id, "", FALSE, TRUE)
    /\ UNCHANGED <<procVars, storeVars, restarts, creates, histVars, searched>>

\* es.index on a missing index creates it (the store's auto-create default)
create_document ==
    /\ \E i \in Instances : pc[i] = "serving"
    /\ creates < MaxCreates
    /\ \E raw \in DocInputs :
        \/ /\ ~Validates(raw)
           /\ resp' = Response("create", 422, {}, 0, "field required", FALSE, FALSE)
           /\ UNCHANGED <<storeVars, creates>>
        \/ /\ Validates(raw)
           /\ resp' = Response("create", 500, {}, 0, "transport error", TRUE, FALSE)
           /\ UNCHANGED <<storeVars, creates>>
        \/ /\ Validates(raw)
           /\ docs' = Append(docs, FillTimestamp(Document(raw)))
           /\ inputs' = Append(inputs, raw)
           /\ indexExists' = TRUE
           /\ indexCreated' = IF indexExists THEN indexCreated ELSE indexCreated + 1
           /\ creates' = creates + 1
           /\ resp' = Response("create", 200, {}, Len(docs) + 1,
                               "Document indexed", FALSE, FALSE)
    /\ UNCHANGED <<procVars, restarts, histVars, searched>>

Process(i) ==
    \/ ConnectAttempt(i)
    \/ ExistsCheck(i)
    \/ CreateIndex(i)
    \/ SeedInsert(i)
    \/ Restart(i)

Next ==
    \/ \E i \in Instances : Process(i)
    \/ list_documents
    \/ search_documents
    \/ get_document
    \/ create_document

\* The whole system
Spec == Init /\ [][Next]_vars

\* The connection phase alone; each iteration of the retry loop ends (the
\* probe returns or throws, the sleep is finite), so the loop keeps going
NextConnect == \E i \in Instances : ConnectAttempt(i) \/ Restart(i)

ConnectSpec ==
    Init /\ [][NextConnect]_vars /\ \A i \in Instances : WF_vars(ConnectAttempt(i))

\* Start-up of all the instances, before any request is served
NextProvision == \E i \in Instances : Process(i)

ProvisionSpec == Init /\ [][NextProvision]_vars

\* One instance started and serving, the others not started
NextGateway ==
    \/ \E i \in {1} : Process(i)
    \/ list_documents
    \/ search_documents
    \/ get_document
    \/ create_document

GatewaySpec == Init /\ [][NextGateway]_vars

\* ============================================================== claims
Provisioning == {"startup", "create", "seed"}

Idle == \A i \in Instances : pc[i] \notin Provisioning

CreatedIds == { id \in 1..Len(docs) : docs[id].author \notin SeedAuthors }

\* C1: whenever an instance serves requests, its connection was verified by a
\* successful ping and its initialize_index returned without raising.
C1_StartupAllOrNothing ==
    \A i \in Instances :
        pc[i] = "serving" => ping[i] = "ok" /\ initResult[i] = "ok"

\* C2: connect_elasticsearch makes at most 5 attempts; it raises
\* ConnectionError only when 5 attempts have failed; a handle is returned only
\* on a successful ping and at the first one (an attempt that leaves the call
\* in its loop has failed); and the call always ends.
C2_ConnectBoundedRetry ==
    /\ [](\A i \in Instances :
            /\ attempt[i] <= 5
            /\ pc[i] = "conn_failed" => attempt[i] = 5 /\ ping[i] \in {"false", "exc"}
            /\ pc[i] = "startup" => ping[i] = "ok")
    /\ [][\A i \in Instances :
            /\ (pc[i] = "connect" /\ pc'[i] = "connect" /\ attempt'[i] # attempt[i])
                    => ping'[i] \in {"false", "exc"} /\ attempt'[i] = attempt[i] + 1
            /\ (pc[i] = "connect" /\ pc'[i] = "conn_failed")
                    => attempt[i] = 4 /\ ping'[i] \in {"false", "exc"}
            /\ (pc[i] = "connect" /\ pc'[i] = "startup") => ping'[i] = "ok"]_vars
    /\ \A i \in Instances : (pc[i] = "connect") ~> (pc[i] # "connect")

C2_Witness ==
    \E i, j \in Instances :
        /\ pc[i] = "conn_failed" /\ attempt[i] = 5
        /\ pc[j] = "startup" /\ ping[j] = "ok"

\* C3: with no store failure, once two initialize_index calls have returned
\* and none is running, there is one 'documents' index, created once, holding
\* exactly the 3 sample documents (and the documents clients created).
C3_SequentialIdempotence ==
    (~faulted /\ okCalls >= 2 /\ Idle) =>
        /\ indexExists
        /\ indexCreated = 1
        /\ SeedCount = 3
        /\ Len(docs) = 3 + creates

C3_Witness ==
    /\ ~faulted /\ okCalls >= 2 /\ Idle
    /\ restarts >= 1
    /\ SeedCount = 3

\* C4: however the steps of concurrent initialize_index calls interleave, and
\* whichever store calls fail, the index is created at most once and no
\* sample document is stored twice (at most 3 sample documents).
C4_ConcurrentIdempotence ==
    /\ indexCreated <= 1
    /\ SeedCount <= 3
    /\ \A k \in 1..Len(sample_docs) :
            Cardinality({ id \in 1..Len(docs) : docs[id] = sample_docs[k] }) <= 1

\* two calls both passed the existence check; one created and seeded, the
\* other's create was refused
C4_Witness ==
    \E i, j \in Instances :
        /\ i # j
        /\ initResult[i] = "ok" /\ seeded[i] = 3
        /\ initResult[j] = "conflict"
        /\ SeedCount = 3

\* C5: get_document answers 404 "Document not found" when the store reports
\* the id (or the index) missing, and 500 when the store call fails otherwise.
C5_GetNotFound ==
    resp.op = "get" =>
        /\ (~resp.storeFault /\ ~resp.hadDoc) =>
                resp.status = 404 /\ resp.detail = "Document not found"
        /\ resp.storeFault => resp.status = 500
        /\ resp.status = 500 => resp.storeFault

C5_Witness ==
    /\ resp.op = "get" /\ resp.status = 404
    /\ indexExists /\ Len(docs) > 0

\* C6: list_documents and search_documents, called while the 'documents'
\* index does not exist (and the store answers), return 200 with no results.
C6_EmptyOnMissingIndex ==
    (resp.op \in {"list", "search"} /\ ~resp.hadIndex /\ ~resp.storeFault) =>
        resp.status = 200 /\ resp.results = {}

C6_Witness ==
    /\ resp.op \in {"list", "search"}
    /\ ~resp.hadIndex /\ ~resp.storeFault
    /\ ~indexExists
    /\ resp.status = 200

\* C7: every document of a search response has a score field; no document
\* of a list or get response, and no stored document, has one.
C7_ScoreOnlyInSearch ==
    /\ resp.op = "search" => \A d \in resp.results : "score" \in DOMAIN d
    /\ resp.op \in {"list", "get"} =>
            \A d \in resp.results : "score" \notin DOMAIN d
    /\ \A id \in 1..Len(docs) : "score" \notin DOMAIN docs[id]

C7_Witness ==
    /\ searched
    /\ resp.op = "list"
    /\ resp.status = 200
    /\ resp.results # {}

\* C8: get_document on a created id returns the author, text and views of
\* the request body, the timestamp of the body whenever it had one, and the
\* server clock's only when it had none.
C8_CreateGetRoundTrip ==
    (resp.op = "get" /\ resp.status = 200 /\ resp.id \in CreatedIds) =>
        \A d \in resp.results :
            LET raw == inputs[resp.id] IN
            /\ d.author = raw.author
            /\ d.text = raw.text
            /\ "views" \in DOMAIN raw => d.views = raw.views
            /\ "timestamp" \in DOMAIN raw => d.timestamp = raw.timestamp
            /\ d.timestamp = ServerNow => "timestamp" \notin DOMAIN raw

\* C9: every stored document has a non-empty author and a non-empty text.
C9_NonEmptyAuthorText ==
    \A id \in 1..Len(docs) : docs[id].author # "" /\ docs[id].text # ""

\* C10: whenever no initialize_index call is running and the 'documents'
\* index exists, it holds all 3 sample documents.
C10_NoPartialInitialization ==
    (Idle /\ indexExists) => SeedCount = 3

====
